---- MODULE Spec2Model ----
(***************************************************************************)
(* PurviewAPIDemo.ipynb: a notebook that drives a metadata catalog through *)
(* the PyApacheAtlas client: upload assets, link them with a lineage       *)
(* process, update the lineage, query by qualified name, delete.           *)
(*                                                                         *)
(* The notebook (its cells, in order) is the program.  The catalog it      *)
(* talks to is a remote service; its contract is taken from the            *)
(* specification's sections 3 and 4.2 and from the notebook's own prose.   *)
(***************************************************************************)
EXTENDS Integers, Sequences, FiniteSets, TLC

\* ------------------------------------------------------------------ bounds

\* Permanent GUIDs the catalog can hand out are 1..MaxGuid.
MaxGuid == 6

\* How many writes another client of the catalog performs (SpecRace only).
MaxOtherWrites == 1

\* ------------------------------------------------------- entity builders

\* The absence marker of an AtlasProcess field (inputs = None) and an
\* explicit sequence, kept apart as a tagged value.
None == [set |-> FALSE, val |-> <<>>]

Some(s) == [set |-> TRUE, val |-> s]

\* AtlasEntity(name, typeName, qualified_name, guid): no inputs or outputs.
AtlasEntity(name, typeName, qualified_name, guid) ==
    [name |-> name, typeName |-> typeName, qualifiedName |-> qualified_name,
     guid |-> guid, inputs |-> None, outputs |-> None]

\* AtlasProcess(name, typeName, qualified_name, inputs, outputs, guid).
AtlasProcess(name, typeName, qualified_name, inputs, outputs, guid) ==
    [name |-> name, typeName |-> typeName, qualifiedName |-> qualified_name,
     guid |-> guid, inputs |-> inputs, outputs |-> outputs]

\* str(g): the key under which guidAssignments reports temporary GUID g.
Str(g) == ToString(g)

\* What an entry of inputs/outputs is serialised to: a reference by GUID,
\* whether it was given as {'guid': g}, as a fetched reference or as an
\* AtlasEntity object.
ToRef(x) == [guid |-> x.guid]

RECURSIVE MapRef(_)
MapRef(s) == IF s = <<>> THEN <<>> ELSE <<ToRef(Head(s))>> \o MapRef(Tail(s))

\* ------------------------------------------------------------ the catalog
\* The remote service.  A stored entity is
\*   [guid, name, typeName, qualifiedName, inputs, outputs]
\* with guid a permanent (positive) GUID and inputs/outputs sequences of
\* permanent GUIDs.

\* Type definitions the catalog knows: the generic built-in ones.
TypeDefs == {"DataSet", "Process"}

Range(s) == {s[i] : i \in DOMAIN s}

GuidsOf(cat) == {x.guid : x \in cat}

\* The stored entities an uploaded entity e is an update of: upload is an
\* upsert on (typeName, qualifiedName).
Matching(cat, e) ==
    {x \in cat : x.typeName = e.typeName /\ x.qualifiedName = e.qualifiedName}

Temps(batch) == {e.guid : e \in Range(batch)}

\* The temporary GUIDs of a batch that need a new permanent GUID.
NewTemps(cat, batch) ==
    {e.guid : e \in {b \in Range(batch) : Matching(cat, b) = {}}}

\* The permanent GUID of every temporary GUID of the batch: that of the
\* stored entity it updates, else the fresh one the service draws for it.
\* All of a batch's entities are assigned before any reference is resolved.
Assign(cat, batch, fresh) ==
    [t \in Temps(batch) |->
        LET e == CHOOSE b \in Range(batch) : b.guid = t
        IN  IF Matching(cat, e) = {} THEN fresh[t]
            ELSE (CHOOSE x \in Matching(cat, e) : TRUE).guid]

\* A reference: a temporary GUID resolves through the batch's assignment,
\* a permanent one stands for itself.
ResolveRef(assign, r) == IF r.guid < 0 THEN assign[r.guid] ELSE r.guid

RECURSIVE ResolveRefs(_, _)
ResolveRefs(assign, refs) ==
    IF refs = <<>> THEN <<>>
    ELSE <<ResolveRef(assign, Head(refs))>> \o ResolveRefs(assign, Tail(refs))

\* Referential integrity, enforced by the service: a temporary GUID must be
\* one of the batch, a permanent one must be stored.
RefOk(cat, batch, r) ==
    IF r.guid < 0 THEN r.guid \in Temps(batch) ELSE r.guid \in GuidsOf(cat)

RefsOk(cat, batch) ==
    \A e \in Range(batch) :
        /\ \A r \in Range(e.inputs.val) : RefOk(cat, batch, r)
        /\ \A r \in Range(e.outputs.val) : RefOk(cat, batch, r)

\* The field an upsert stores: an explicit sequence replaces the stored
\* one, the absence marker keeps it (nothing stored yet: empty).
StoredField(given, old, assign) ==
    IF given.set THEN ResolveRefs(assign, given.val) ELSE old

Upserted(cat, e, assign) ==
    LET old == Matching(cat, e)
        o   == CHOOSE x \in old : TRUE
    IN  [guid |-> assign[e.guid], name |-> e.name, typeName |-> e.typeName,
         qualifiedName |-> e.qualifiedName,
         inputs  |-> StoredField(e.inputs,
                                 IF old = {} THEN <<>> ELSE o.inputs, assign),
         outputs |-> StoredField(e.outputs,
                                 IF old = {} THEN <<>> ELSE o.outputs, assign)]

NoAssignments == [k \in {} |-> 0]

\* A response of the client: the error raised, or the JSON body, with the
\* catalog the call leaves.
Failure(cat, err) ==
    [ok |-> FALSE, error |-> err, catalog |-> cat,
     guidAssignments |-> NoAssignments, entities |-> <<>>]

Success(cat, assignments, entities) ==
    [ok |-> TRUE, error |-> "none", catalog |-> cat,
     guidAssignments |-> assignments, entities |-> entities]

\* guidAssignments: the string form of each temporary GUID to its
\* permanent GUID.
GuidAssignments(batch, assign) ==
    [k \in {Str(t) : t \in Temps(batch)} |->
        assign[CHOOSE t \in Temps(batch) : Str(t) = k]]

\* client.upload_entities(batch): the bulk upsert.
upload_entities(cat, batch, fresh) ==
    LET assign == Assign(cat, batch, fresh) IN
    IF \E e \in Range(batch) : e.typeName \notin TypeDefs
        THEN Failure(cat, "unknown_type")
    ELSE IF ~RefsOk(cat, batch)
        THEN Failure(cat, "unresolved_reference")
    ELSE Success((cat \ UNION {Matching(cat, e) : e \in Range(batch)})
                    \cup {Upserted(cat, e, assign) : e \in Range(batch)},
                 GuidAssignments(batch, assign), <<>>)

\* What get_entity returns of a stored entity.
RECURSIVE AsRefs(_)
AsRefs(guids) ==
    IF guids = <<>> THEN <<>>
    ELSE <<[guid |-> Head(guids)]>> \o AsRefs(Tail(guids))

Fetched(x) ==
    [guid |-> x.guid, typeName |-> x.typeName,
     attributes |-> [name |-> x.name, qualifiedName |-> x.qualifiedName,
                     inputs |-> AsRefs(x.inputs),
                     outputs |-> AsRefs(x.outputs)]]

\* client.get_entity(guid=...).
get_entity_by_guid(cat, guid) ==
    IF guid \notin GuidsOf(cat) THEN Failure(cat, "not_found")
    ELSE Success(cat, NoAssignments,
                 <<Fetched(CHOOSE x \in cat : x.guid = guid)>>)

NamedMatch(cat, qualifiedName, typeName) ==
    {x \in cat : x.typeName = typeName /\ x.qualifiedName = qualifiedName}

RECURSIVE FetchEach(_, _, _)
FetchEach(cat, names, typeName) ==
    IF names = <<>> THEN <<>>
    ELSE <<Fetched(CHOOSE x \in NamedMatch(cat, Head(names), typeName) : TRUE)>>
            \o FetchEach(cat, Tail(names), typeName)

\* client.get_entity(qualifiedName=[...], typeName=...): a name with no
\* match is an error of the service.
get_entity_by_name(cat, names, typeName) ==
    IF \E n \in Range(names) : NamedMatch(cat, n, typeName) = {}
        THEN Failure(cat, "not_found")
    ELSE Success(cat, NoAssignments, FetchEach(cat, names, typeName))

\* A delete that answers but leaves the entity stored.
delete_entity_keeps(cat, guid) ==
    IF guid \notin GuidsOf(cat) THEN Failure(cat, "not_found")
    ELSE Success(cat, NoAssignments, <<>>)

\* client.delete_entity(guid=...): removes that entity and nothing else.
delete_entity(cat, guid) ==
    IF guid \notin GuidsOf(cat) THEN Failure(cat, "not_found")
    ELSE Success({x \in cat : x.guid # guid}, NoAssignments, <<>>)

\* ----------------------------------------------------------- the notebook

VARIABLES
    catalog,          \* the entities the service stores
    issued,           \* the permanent GUIDs the service has handed out
    pc,               \* the statement the notebook is at
    error,            \* the exception that ended the run, "none" while running
    requests,         \* catalog calls the notebook has made
    upload_results,   \* the notebook's upload_results
    input01_guid, output01_guid, process01_guid,
    process01,        \* the fetched lineage process (line 201)
    assets, processes,\* the query results (lines 247, 253)
    idx,              \* position of the delete loop in assets + processes
    otherWrites       \* what another client has written, and when (SpecRace)

vars == <<catalog, issued, pc, error, requests, upload_results, input01_guid,
          output01_guid, process01_guid, process01, assets, processes, idx,
          otherWrites>>

firstAsset ==
    AtlasEntity("MyFirstCustomAsset", "DataSet", "demo://MyFirstCustomAsset", -1000)

input01 == AtlasEntity("Input01", "DataSet", "demo://input01", -1001)

output01 == AtlasEntity("Output01", "DataSet", "demo://output01", -1002)

\* The batch of the second cell.
AssetsBatch == <<input01, output01>>

\* A mistyped key.
input01_key_typo == "-1011"

\* The keys the notebook reads its permanent GUIDs under.
input01_key == "-1001"

output01_key == "-1002"

process01_key == "-1003"

\* The lineage process as first built (line 148).
process01_built(in, out) ==
    AtlasProcess("Process01", "Process", "demo://process01",
                 Some(<<[guid |-> in]>>), Some(<<[guid |-> out]>>), -1003)

input02 == AtlasEntity("Input02", "DataSet", "demo://input02", -1004)

\* The dummy process with outputs = [] in place of None.
process01_update_emptyOutputs ==
    AtlasProcess("Process01", "Process", "demo://process01", None, Some(<<>>), -1005)

\* The dummy process under a qualified name of its own.
process01_update_renamed ==
    AtlasProcess("Process01", "Process", "demo://process01_update", None, None, -1005)

\* The dummy process the update is saved into (line 191).
process01_update_built ==
    AtlasProcess("Process01", "Process", "demo://process01", None, None, -1005)

\* existing_inputs = process01["attributes"]["inputs"]
existing_inputs(fetched) == fetched.attributes.inputs

\* The update without the concatenation: inputs = [input02].
process01_update_noConcat(fetched) ==
    [process01_update_built EXCEPT !.inputs = Some(MapRef(<<input02>>))]

\* The update computed from what the catalog stores when it is sent, not
\* from what was fetched.
process01_update_reread(fetched) ==
    [process01_update_built EXCEPT
        !.inputs = Some(MapRef(
            AsRefs((CHOOSE x \in NamedMatch(catalog, "demo://process01", "Process") :
                        TRUE).inputs) \o <<input02>>))]

\* process01_update.inputs = existing_inputs + [input02]
process01_update(fetched) ==
    [process01_update_built EXCEPT
        !.inputs = Some(MapRef(existing_inputs(fetched) \o <<input02>>))]

\* The update uploaded without input02.
UpdateBatch_noInput02(fetched) == <<process01_update(fetched)>>

\* The batch of the update upload (line 220).
UpdateBatch(fetched) == <<process01_update(fetched), input02>>

\* The query with one name given twice and demo://input02 left out.
AssetNames_dup ==
    <<"demo://MyFirstCustomAsset", "demo://input01", "demo://input01",
      "demo://output01">>

AssetNames ==
    <<"demo://MyFirstCustomAsset", "demo://input01", "demo://input02",
      "demo://output01">>

ProcessNames == <<"demo://process01">>

\* The loop over the assets only.
DeleteList_assetsOnly(as, ps) == as

\* for entity in assets + processes
DeleteList(as, ps) == as \o ps

NoEntity ==
    [guid |-> 0, typeName |-> "",
     attributes |-> [name |-> "", qualifiedName |-> "", inputs |-> <<>>,
                     outputs |-> <<>>]]

\* Entities other users of the catalog may have stored before the notebook
\* runs: somebody else's asset, and an input01 left by an earlier run.
Foreign ==
    [guid |-> 1, name |-> "Sales", typeName |-> "DataSet",
     qualifiedName |-> "other://sales", inputs |-> <<>>, outputs |-> <<>>]

Leftover ==
    [guid |-> 2, name |-> "OldInput01", typeName |-> "DataSet",
     qualifiedName |-> "demo://input01", inputs |-> <<>>, outputs |-> <<>>]

Init ==
    /\ catalog \in SUBSET {Foreign, Leftover}
    /\ issued = GuidsOf(catalog)
    /\ pc = "upload_first"
    /\ error = "none"
    /\ requests = 0
    /\ upload_results = NoAssignments
    /\ input01_guid = 0
    /\ output01_guid = 0
    /\ process01_guid = 0
    /\ process01 = NoEntity
    /\ assets = <<>>
    /\ processes = <<>>
    /\ idx = 1
    /\ otherWrites = <<>>

\* An exception that is swallowed: the run goes on from where it was.
Raise_swallowed(err) == pc' = pc /\ error' = err

\* An uncaught exception ends the run.
Raise(err) == pc' = "failed" /\ error' = err

Proceed(next) == pc' = next /\ error' = error

\* What can go wrong with a call besides what the request itself asks for:
\* the credentials are checked at first use, the service may be unavailable.
Faults == IF requests = 0 THEN {"none", "authentication"} ELSE {"none", "unavailable"}

\* The fresh permanent GUIDs the service may draw for the new entities of a
\* batch: distinct, and never one handed out before.
FreshChoices(batch) ==
    {f \in [NewTemps(catalog, batch) -> (1..MaxGuid) \ issued] :
        \A a, b \in DOMAIN f : a # b => f[a] # f[b]}

Answer(fault, resp) == IF fault = "none" THEN resp ELSE Failure(catalog, fault)

\* One call of the client: the request is counted, the service's state
\* becomes what the call leaves.
Sent(r) ==
    /\ requests' = requests + 1
    /\ catalog' = r.catalog
    /\ issued' = issued \cup GuidsOf(r.catalog)

\* upload_results = client.upload_entities(firstAsset)
UploadFirstAsset ==
    /\ pc = "upload_first"
    /\ \E fault \in Faults, fresh \in FreshChoices(<<firstAsset>>) :
        LET r == Answer(fault, upload_entities(catalog, <<firstAsset>>, fresh)) IN
        /\ Sent(r)
        /\ IF r.ok
             THEN upload_results' = r.guidAssignments /\ Proceed("upload_assets")
             ELSE UNCHANGED upload_results /\ Raise(r.error)
    /\ UNCHANGED <<input01_guid, output01_guid, process01_guid, process01,
                   assets, processes, idx, otherWrites>>

\* upload_results = client.upload_entities([input01, output01]) and the two
\* lookups in guidAssignments.
UploadAssets ==
    /\ pc = "upload_assets"
    /\ \E fault \in Faults, fresh \in FreshChoices(AssetsBatch) :
        LET r == Answer(fault, upload_entities(catalog, AssetsBatch, fresh))
            g == r.guidAssignments
        IN
        /\ Sent(r)
        /\ IF ~r.ok
             THEN /\ Raise(r.error)
                  /\ UNCHANGED <<upload_results, input01_guid, output01_guid>>
             ELSE /\ upload_results' = g
                  /\ IF input01_key \notin DOMAIN g
                       THEN /\ Raise("KeyError")
                            /\ UNCHANGED <<input01_guid, output01_guid>>
                       ELSE /\ input01_guid' = g[input01_key]
                            /\ IF output01_key \notin DOMAIN g
                                 THEN Raise("KeyError") /\ UNCHANGED output01_guid
                                 ELSE /\ output01_guid' = g[output01_key]
                                      /\ Proceed("upload_process")
    /\ UNCHANGED <<process01_guid, process01, assets, processes, idx, otherWrites>>

\* upload_results = client.upload_entities(process01) and the lookup.
UploadProcess ==
    /\ pc = "upload_process"
    /\ LET batch == <<process01_built(input01_guid, output01_guid)>> IN
       \E fault \in Faults, fresh \in FreshChoices(batch) :
        LET r == Answer(fault, upload_entities(catalog, batch, fresh))
            g == r.guidAssignments
        IN
        /\ Sent(r)
        /\ IF ~r.ok
             THEN Raise(r.error) /\ UNCHANGED <<upload_results, process01_guid>>
             ELSE /\ upload_results' = g
                  /\ IF process01_key \notin DOMAIN g
                       THEN Raise("KeyError") /\ UNCHANGED process01_guid
                       ELSE /\ process01_guid' = g[process01_key]
                            /\ Proceed("fetch_process")
    /\ UNCHANGED <<input01_guid, output01_guid, process01, assets, processes,
                   idx, otherWrites>>

\* process01 = client.get_entity(typeName="Process", guid=process01_guid)["entities"][0]
FetchProcess ==
    /\ pc = "fetch_process"
    /\ \E fault \in Faults :
        LET r == Answer(fault, get_entity_by_guid(catalog, process01_guid)) IN
        /\ Sent(r)
        /\ IF ~r.ok THEN Raise(r.error) /\ UNCHANGED process01
           ELSE IF r.entities = <<>> THEN Raise("IndexError") /\ UNCHANGED process01
           ELSE process01' = r.entities[1] /\ Proceed("upload_update")
    /\ UNCHANGED <<upload_results, input01_guid, output01_guid, process01_guid,
                   assets, processes, idx, otherWrites>>

\* upload_results = client.upload_entities([process01_update, input02])
UploadUpdate ==
    /\ pc = "upload_update"
    /\ LET batch == UpdateBatch(process01) IN
       \E fault \in Faults, fresh \in FreshChoices(batch) :
        LET r == Answer(fault, upload_entities(catalog, batch, fresh)) IN
        /\ Sent(r)
        /\ IF r.ok
             THEN upload_results' = r.guidAssignments /\ Proceed("query_assets")
             ELSE UNCHANGED upload_results /\ Raise(r.error)
    /\ UNCHANGED <<input01_guid, output01_guid, process01_guid, process01,
                   assets, processes, idx, otherWrites>>

\* assets = client.get_entity(qualifiedName=[...], typeName='DataSet').get('entities')
QueryAssets ==
    /\ pc = "query_assets"
    /\ \E fault \in Faults :
        LET r == Answer(fault, get_entity_by_name(catalog, AssetNames, "DataSet")) IN
        /\ Sent(r)
        /\ IF r.ok THEN assets' = r.entities /\ Proceed("query_processes")
           ELSE UNCHANGED assets /\ Raise(r.error)
    /\ UNCHANGED <<upload_results, input01_guid, output01_guid, process01_guid,
                   process01, processes, idx, otherWrites>>

\* processes = client.get_entity(qualifiedName=[...], typeName='Process').get('entities')
QueryProcesses ==
    /\ pc = "query_processes"
    /\ \E fault \in Faults :
        LET r == Answer(fault, get_entity_by_name(catalog, ProcessNames, "Process")) IN
        /\ Sent(r)
        /\ IF r.ok
             THEN /\ processes' = r.entities
                  /\ Proceed(IF DeleteList(assets, r.entities) = <<>>
                             THEN "done" ELSE "delete")
             ELSE UNCHANGED processes /\ Raise(r.error)
    /\ UNCHANGED <<upload_results, input01_guid, output01_guid, process01_guid,
                   process01, assets, idx, otherWrites>>

\* One turn of the loop: guid = entity['guid']; client.delete_entity(guid=guid)
DeleteEntity ==
    /\ pc = "delete"
    /\ \E fault \in Faults :
        LET entity == DeleteList(assets, processes)[idx]
            r == Answer(fault, delete_entity(catalog, entity.guid))
        IN
        /\ Sent(r)
        /\ IF r.ok
             THEN /\ idx' = idx + 1
                  /\ Proceed(IF idx = Len(DeleteList(assets, processes))
                             THEN "done" ELSE "delete")
             ELSE UNCHANGED idx /\ Raise(r.error)
    /\ UNCHANGED <<upload_results, input01_guid, output01_guid, process01_guid,
                   process01, assets, processes, otherWrites>>

Next ==
    \/ UploadFirstAsset
    \/ UploadAssets
    \/ UploadProcess
    \/ FetchProcess
    \/ UploadUpdate
    \/ QueryAssets
    \/ QueryProcesses
    \/ DeleteEntity

Spec == Init /\ [][Next]_vars

\* ------------------------------------------------------- a second client
\* Another user of the same catalog, which the notebook does not exclude:
\* it sets the inputs of demo://process01 to no input or to one stored
\* asset, before the notebook fetches the process or between the fetch
\* and the write-back.  otherWrites logs what it wrote and where the
\* notebook was.

StoredProcess == NamedMatch(catalog, "demo://process01", "Process")

TheProcess == CHOOSE x \in StoredProcess : TRUE

OtherInputs ==
    {<<>>} \cup {<<[guid |-> x.guid]>> : x \in {y \in catalog : y.typeName = "DataSet"}}

OtherClientWrite ==
    /\ Len(otherWrites) < MaxOtherWrites
    /\ pc \in {"fetch_process", "upload_update"}
    /\ StoredProcess # {}
    /\ \E refs \in OtherInputs :
        LET batch == <<AtlasProcess("Process01", "Process", "demo://process01",
                                    Some(refs), None, -2000)>>
            r == upload_entities(catalog, batch, NoAssignments)
        IN
        /\ refs # AsRefs(TheProcess.inputs)
        /\ r.ok
        /\ catalog' = r.catalog
        /\ otherWrites' = Append(otherWrites, [at |-> pc, inputs |-> refs])
    /\ UNCHANGED <<issued, pc, error, requests, upload_results, input01_guid,
                   output01_guid, process01_guid, process01, assets, processes,
                   idx>>

NextRace == Next \/ OtherClientWrite

SpecRace == Init /\ [][NextRace]_vars

\* ------------------------------------------------------------ properties

\* The notebook has uploaded the update and queried or deleted nothing yet.
PostUpdate == pc \in {"query_assets", "query_processes"}

Stored(qualifiedName, typeName) ==
    CHOOSE x \in NamedMatch(catalog, qualifiedName, typeName) : TRUE

\* key k of upload_results is present, and its value is the permanent,
\* positive GUID of the stored entity e was uploaded as.
Assigned(e) ==
    /\ Str(e.guid) \in DOMAIN upload_results
    /\ upload_results[Str(e.guid)] > 0
    /\ NamedMatch(catalog, e.qualifiedName, e.typeName) # {}
    /\ upload_results[Str(e.guid)] = Stored(e.qualifiedName, e.typeName).guid

\* C1: after each successful upload, guidAssignments holds the key str(g)
\* of every temporary GUID g of the batch, mapped to the positive permanent
\* GUID of the stored entity; the notebook's three lookups never raise
\* KeyError and read exactly those GUIDs.
C1_GuidAssignments ==
    /\ error # "KeyError"
    /\ pc = "upload_assets" => Assigned(firstAsset)
    /\ pc = "upload_process" =>
        /\ Assigned(input01) /\ Assigned(output01)
        /\ input01_guid = upload_results["-1001"]
        /\ output01_guid = upload_results["-1002"]
    /\ pc = "fetch_process" =>
        /\ Assigned(process01_built(input01_guid, output01_guid))
        /\ process01_guid = upload_results["-1003"]

C1_Witness ==
    /\ pc = "fetch_process"
    /\ process01_guid = upload_results["-1003"]
    /\ process01_guid > 0
    /\ input01_guid > 0
    /\ output01_guid > 0

\* C2: after the update upload, whose process has outputs = None, the
\* stored outputs of demo://process01 are still the one reference to
\* output01 stored before.
C2_NoneLeavesOutputs ==
    PostUpdate =>
        /\ StoredProcess # {}
        /\ TheProcess.outputs = <<output01_guid>>

C2_Witness ==
    /\ pc = "query_assets"
    /\ TheProcess.outputs = <<output01_guid>>
    /\ Len(TheProcess.inputs) = 2

\* C3: after the update upload the stored inputs of demo://process01 are
\* exactly the fetched inputs followed by input02: input01 then input02,
\* two distinct entries.
C3_InputsReplaced ==
    PostUpdate =>
        /\ StoredProcess # {}
        /\ AsRefs(TheProcess.inputs) =
              existing_inputs(process01) \o <<[guid |-> upload_results["-1004"]]>>
        /\ TheProcess.inputs = <<input01_guid, upload_results["-1004"]>>
        /\ input01_guid # upload_results["-1004"]

C3_Witness ==
    /\ pc = "query_processes"
    /\ TheProcess.inputs = <<input01_guid, upload_results["-1004"]>>
    /\ existing_inputs(process01) = <<[guid |-> input01_guid]>>

\* C4: in the update batch the process refers to input02 by its temporary
\* GUID and comes before it; the upload never fails on that reference, the
\* reference is stored as one permanent GUID, the one guidAssignments
\* reports for -1004, which is the stored demo://input02.
C4_TemporaryReferenceResolves ==
    /\ error # "unresolved_reference"
    /\ PostUpdate =>
        /\ Assigned(input02)
        /\ Cardinality(NamedMatch(catalog, "demo://input02", "DataSet")) = 1
        /\ TheProcess.inputs[Len(TheProcess.inputs)] = upload_results[Str(-1004)]
        /\ \A i \in DOMAIN TheProcess.inputs : TheProcess.inputs[i] > 0

C4_Witness ==
    /\ pc = "query_assets"
    /\ TheProcess.inputs[2] = upload_results["-1004"]
    /\ Stored("demo://input02", "DataSet").guid = upload_results["-1004"]

\* The qualified names the notebook has uploaded DataSet assets under.
UploadedAssetNames ==
    {firstAsset.qualifiedName, input01.qualifiedName, input02.qualifiedName,
     output01.qualifiedName}

\* C5: every stored entity is returned by get_entity on its
\* (qualifiedName, typeName) with that qualifiedName and typeName; the
\* DataSet query returns exactly the four uploaded assets and the Process
\* query exactly the one process.
C5_RoundTrip ==
    /\ \A x \in catalog :
        LET r == get_entity_by_name(catalog, <<x.qualifiedName>>, x.typeName) IN
        /\ r.ok
        /\ Len(r.entities) = 1
        /\ r.entities[1].attributes.qualifiedName = x.qualifiedName
        /\ r.entities[1].typeName = x.typeName
        /\ r.entities[1].guid = x.guid
    /\ pc \in {"query_processes", "delete", "done"} =>
        /\ Len(assets) = 4
        /\ {assets[i].attributes.qualifiedName : i \in 1..4} = UploadedAssetNames
        /\ \A i \in 1..4 : assets[i].typeName = "DataSet"
        /\ pc = "query_processes" => {assets[i].guid : i \in 1..4} =
              {x.guid : x \in {y \in catalog : y.qualifiedName \in UploadedAssetNames}}
    /\ pc \in {"delete", "done"} =>
        /\ Len(processes) = 1
        /\ processes[1].attributes.qualifiedName = "demo://process01"
        /\ processes[1].typeName = "Process"
        /\ processes[1].guid = process01_guid

C5_Witness ==
    /\ pc = "delete"
    /\ idx = 1
    /\ Len(assets) = 4
    /\ Len(processes) = 1

\* The GUIDs the delete loop has deleted so far.
Deleted == {DeleteList(assets, processes)[i].guid : i \in 1..(idx - 1)}

\* C6: once delete_entity has succeeded on a GUID, get_entity by that GUID
\* fails with not-found and a second delete_entity of it is an error.
C6_DeletedIsGone ==
    pc \in {"delete", "done", "failed"} =>
        \A g \in Deleted :
            /\ ~get_entity_by_guid(catalog, g).ok
            /\ get_entity_by_guid(catalog, g).error = "not_found"
            /\ ~delete_entity(catalog, g).ok
            /\ delete_entity(catalog, g).catalog = catalog

C6_Witness ==
    /\ pc = "delete"
    /\ idx = 3
    /\ ~get_entity_by_guid(catalog, assets[1].guid).ok
    /\ ~delete_entity(catalog, assets[2].guid).ok

\* C7: the delete loop calls delete_entity on entities that exist, each
\* once (the process too, after its input and output assets are gone), and
\* when the notebook is done the catalog holds none of its entities.
C7_CleanUp ==
    /\ pc = "delete" =>
        /\ DeleteList(assets, processes)[idx].guid \in GuidsOf(catalog)
        /\ DeleteList(assets, processes)[idx].guid \notin Deleted
        /\ requests = 7 + (idx - 1)
    /\ pc = "done" =>
        /\ Cardinality(Deleted) = 5
        /\ requests = 12
        /\ \A x \in catalog :
            /\ x.qualifiedName \notin UploadedAssetNames
            /\ x.qualifiedName # "demo://process01"
    /\ (pc = "failed" /\ requests > 7) => error # "not_found"

C7_Witness ==
    /\ pc = "done"
    /\ catalog = {}
    /\ idx = 6

\* C9: a failed call ends the run: from then on the notebook sends
\* nothing and the catalog stays as the completed steps left it; the
\* failed call itself changes nothing in the catalog.
C9_FailureTerminates ==
    [][/\ error # "none" => (requests' = requests /\ catalog' = catalog /\ pc' = pc)
       /\ (error = "none" /\ error' \in {"authentication", "unavailable", "not_found",
                                        "unknown_type", "unresolved_reference"})
            => (catalog' = catalog /\ pc' = "failed" /\ requests' = requests + 1)]_vars

C9_Witness ==
    /\ pc = "failed"
    /\ error = "unavailable"
    /\ idx = 3
    /\ Cardinality(catalog) = 3

\* C10: the catalog never holds two entities with the same typeName and
\* qualifiedName; the update upload, under the new temporary GUID -1005,
\* updates the stored demo://process01: guidAssignments['-1005'] is
\* process01_guid.
C10_Upsert ==
    /\ \A x, y \in catalog :
        (x.typeName = y.typeName /\ x.qualifiedName = y.qualifiedName) => x = y
    /\ \A x, y \in catalog : x.guid = y.guid => x = y
    /\ PostUpdate =>
        /\ "-1005" \in DOMAIN upload_results
        /\ upload_results["-1005"] = process01_guid
        /\ Cardinality({x \in catalog : x.typeName = "Process"}) = 1

C10_Witness ==
    /\ pc = "query_assets"
    /\ upload_results["-1005"] = process01_guid
    /\ Cardinality({x \in catalog : x.typeName = "Process"}) = 1

\* The stored inputs of demo://process01 in catalog cat.
StoredInputsOf(cat) ==
    (CHOOSE x \in NamedMatch(cat, "demo://process01", "Process") : TRUE).inputs

\* C8 (SpecRace): the write-back stores the sequence computed from the
\* fetched inputs, whatever the catalog held when it was sent: what another
\* client wrote between the fetch and the write-back is gone.
C8_LostUpdate ==
    [][(pc = "upload_update" /\ pc' = "query_assets") =>
          AsRefs(StoredInputsOf(catalog')) =
              existing_inputs(process01) \o <<[guid |-> upload_results'["-1004"]]>>]_vars

\* The other client wrote after the fetch, something else than the
\* notebook had read, and the stored inputs are the notebook's.
C8_Witness ==
    /\ pc = "query_assets"
    /\ otherWrites # <<>>
    /\ otherWrites[Len(otherWrites)].at = "upload_update"
    /\ otherWrites[Len(otherWrites)].inputs # existing_inputs(process01)
    /\ AsRefs(TheProcess.inputs) =
          existing_inputs(process01) \o <<[guid |-> upload_results["-1004"]]>>

====
